---- MODULE Spec2Model ----
(***************************************************************************)
(* dataplot.py: the line-to-series extraction pipeline of main() and the   *)
(* histogram transform calcHistogram().                                    *)
(*                                                                         *)
(* Floats are modelled exactly: every Y value, bin width and threshold is  *)
(* an integer, and a quotient n / d is kept as the pair <<n, d>>.          *)
(***************************************************************************)
EXTENDS Integers, Sequences, FiniteSets, TLC

VARIABLES
    options,      \* argparse namespace after "Parse ycols" (options.ycol holds ints)
    ycolnames,    \* display name of every Y column
    disk,         \* path -> [readable, lines]: what open()/readlines() returns
    pc,           \* position in main(): "file", "line", "finish", "done", "aborted"
    error,        \* the exception that ended the run, "" if none
    fileno,       \* 1-based position of infile in options.FILES
    lines,        \* filtered lines of infile not yet processed
    xx,           \* X values of infile
    yy,           \* one Y sequence per Y column of infile
    index,        \* running index
    total_y,      \* running sum of Y values
    graphindex,   \* number of series plotted so far
    plots,        \* series handed to pyplot.plot()/pyplot.bar(), in call order
    stdout,       \* what was printed, in order
    outfile,      \* <<>> until pyplot.savefig() ran, then <<plots>>
    hyy,          \* calcHistogram harness: input values
    hbinsize,     \* calcHistogram harness: bin width
    hout          \* calcHistogram harness: <<>> or <<result>>

vars == <<options, ycolnames, disk, pc, error, fileno, lines, xx, yy, index,
          total_y, graphindex, plots, stdout, outfile, hyy, hbinsize, hout>>

pipevars == <<options, ycolnames, disk, pc, error, fileno, lines, xx, yy, index,
              total_y, graphindex, plots, stdout, outfile>>

histvars == <<hyy, hbinsize, hout>>

----------------------------------------------------------------------------
(* Bounds of the model. *)

MaxFiles == 2          \* files on the command line
MaxTotalLines == 2     \* lines over all files of one run
MaxOptions == 2        \* options given on the command line besides FILES
MaxHistLen == 3        \* calcHistogram harness: number of input values
MaxHistVal == 3        \* calcHistogram harness: values are -MaxHistVal..MaxHistVal
MaxBin == 2            \* calcHistogram harness: bin widths are 1..MaxBin

----------------------------------------------------------------------------
(* Helpers for Python built-ins. *)

RECURSIVE SeqsUpTo(_, _)
SeqsUpTo(S, n) ==
    IF n = 0 THEN {<<>>}
    ELSE LET shorter == SeqsUpTo(S, n - 1)
         IN  shorter \cup {Append(s, e) : s \in {t \in shorter : Len(t) = n - 1}, e \in S}

Max(s) == CHOOSE m \in {s[i] : i \in DOMAIN s} : \A i \in DOMAIN s : s[i] <= m

RECURSIVE SumSeq(_)
SumSeq(s) == IF s = <<>> THEN 0 ELSE Head(s) + SumSeq(Tail(s))

RECURSIVE Concat(_)
Concat(ss) == IF ss = <<>> THEN <<>> ELSE Head(ss) \o Concat(Tail(ss))

\* insertion of v into an ascending sequence, after the elements equal to it
RECURSIVE Insert(_, _)
Insert(s, v) ==
    IF s = <<>> THEN <<v>>
    ELSE IF v < Head(s) THEN <<v>> \o s
    ELSE <<Head(s)>> \o Insert(Tail(s), v)

RECURSIVE sorted(_)
sorted(s) == IF s = <<>> THEN <<>> ELSE Insert(sorted(Tail(s)), Head(s))

----------------------------------------------------------------------------
(* The text the model runs on: three log lines, the tokens the default     *)
(* --num-regex finds in each, and the conversions of the tokens.           *)

LineSet == {"idle", "1 t=3", "3 1.2.3"}

\* re.findall("[+-]?[0-9.]+", line)
findall(line) ==
    CASE line = "idle"    -> <<>>
      [] line = "1 t=3"   -> <<"1", "3">>
      [] line = "3 1.2.3" -> <<"3", "1.2.3">>

\* re.search(filter, line) != None, for the filter "t="
search(filter, line) == filter = "t=" /\ line = "1 t=3"

\* float(token) succeeds
IsFloat(token) == token \in {"1", "3"}

\* float(token)
float(token) == CASE token = "1" -> 1 [] token = "3" -> 3

\* int(text) of a --ycol index
int(text) ==
    CASE text = "0" -> 0 [] text = "1" -> 1 [] text = "2" -> 2 [] text = "-1" -> -1

\* "{}".format(n)
format(n) == CASE n = 0 -> "0" [] n = 1 -> "1" [] n = 2 -> "2" [] n = -1 -> "-1"

\* arg.split("=", 1) of a --ycol argument
split(arg) ==
    CASE arg = "0"   -> <<"0">>
      [] arg = "-1"  -> <<"-1">>
      [] arg = "a=0" -> <<"a", "0">>
      [] arg = "b=1" -> <<"b", "1">>
      [] arg = "c=2" -> <<"c", "2">>

\* "{:.1f}".format(n / d) in tenths, d > 0: round half to even
Format1f(n, d) ==
    LET f == (10 * n) \div d
        r == 10 * n - f * d
    IN  IF 2 * r < d THEN f
        ELSE IF 2 * r > d THEN f + 1
        ELSE IF f % 2 = 0 THEN f ELSE f + 1

----------------------------------------------------------------------------
(* calcHistogram *)

\* y // binsize rounding toward zero instead of down
BinTruncated(y, binsize) ==
    IF y >= 0 THEN y \div binsize ELSE -((-y) \div binsize)

\* line 30: y // binsize, Python's floor division (binsize # 0)
BinOf(y, binsize) ==
    IF binsize > 0 THEN y \div binsize ELSE (-y) \div (-binsize)

\* the loop "for y in yy": hist after the values yy[i..]
RECURSIVE HistLoop(_, _, _, _)
HistLoop(yy_, binsize, i, hist) ==
    IF i > Len(yy_) THEN hist
    ELSE LET bin == BinOf(yy_[i], binsize)
         IN  IF bin \in DOMAIN hist
             THEN HistLoop(yy_, binsize, i + 1, [hist EXCEPT ![bin] = @ + 1])
             ELSE HistLoop(yy_, binsize, i + 1,
                           [b \in DOMAIN hist \cup {bin} |->
                               IF b = bin THEN 1 ELSE hist[b]])

\* sorted(hist.items()): the keys in ascending order
RECURSIVE SortedKeys(_)
SortedKeys(K) ==
    IF K = {} THEN <<>>
    ELSE LET k == CHOOSE m \in K : \A o \in K : m <= o
         IN  <<k>> \o SortedKeys(K \ {k})

calcHistogram(yy_, binsize) ==
    LET hist == HistLoop(yy_, binsize, 1, << >>)
        keys == SortedKeys(DOMAIN hist)
    IN  << [k \in DOMAIN keys |-> keys[k] * binsize],
           [k \in DOMAIN keys |-> hist[keys[k]]] >>

----------------------------------------------------------------------------
(* The command line and the files. *)

\* parser.add_argument defaults; ycol holds the raw --ycol arguments here
Defaults ==
    [xcol |-> -1, ycol |-> <<>>, xdiv |-> 1, hist |-> 0, sort |-> FALSE,
     print_high |-> 0, print_stats |-> FALSE, filter |-> ""]

\* --colors default "rbyg", one character per graph
Colors == <<"r", "b", "y", "g">>

YcolArgs ==
    {<<>>, <<"-1">>, <<"a=0">>, <<"0", "c=2">>, <<"a=0", "b=1">>, <<"b=1", "a=0">>}

ArgSpace ==
    [xcol : {-1, 1}, ycol : YcolArgs, xdiv : {1, 2}, hist : {-1, 0, 2},
     sort : BOOLEAN, print_high : {0, 2}, print_stats : BOOLEAN,
     filter : {"", "t="}]

CommandLines ==
    {o \in ArgSpace : Cardinality({k \in DOMAIN o : o[k] # Defaults[k]}) <= MaxOptions}

PathNames == <<"a.log", "b.log", "c.log">>

FileContents(budget) ==
    {[readable |-> FALSE, lines |-> <<>>]}
        \cup {[readable |-> TRUE, lines |-> l] : l \in SeqsUpTo(LineSet, budget)}

\* the contents of n files holding at most budget lines in all
RECURSIVE Contents(_, _)
Contents(n, budget) ==
    IF n = 0 THEN {<<>>}
    ELSE UNION {{<<c>> \o rest : rest \in Contents(n - 1, budget - Len(c.lines))} :
                   c \in FileContents(budget)}

\* every file system the model runs on, 1..MaxFiles files
Disks ==
    UNION {{[p \in {PathNames[i] : i \in 1..n} |->
                 c[CHOOSE i \in 1..n : PathNames[i] = p]] : c \in Contents(n, MaxTotalLines)} :
              n \in 1..MaxFiles}

\* "Parse ycols": the raw arguments to (ycols, ycolnames)
ParseYcols(args) ==
    LET raw == IF Len(args) = 0 THEN <<"0">> ELSE args
    IN  [ycols |-> [i \in DOMAIN raw |->
                       IF Len(split(raw[i])) = 1
                       THEN int(split(raw[i])[1]) ELSE int(split(raw[i])[2])],
         names |-> [i \in DOMAIN raw |->
                       IF Len(split(raw[i])) = 1 THEN raw[i] ELSE split(raw[i])[1]]]

Init ==
    \E o \in CommandLines, d \in Disks :
      LET n == Cardinality(DOMAIN d) IN
        /\ options = [xcol |-> o.xcol, ycol |-> ParseYcols(o.ycol).ycols,
                      xdiv |-> o.xdiv, hist |-> o.hist, sort |-> o.sort,
                      print_high |-> o.print_high, print_stats |-> o.print_stats,
                      filter |-> o.filter,
                      FILES |-> [i \in 1..n |-> PathNames[i]]]
        /\ ycolnames = ParseYcols(o.ycol).names
        /\ disk = d
        /\ pc = "file"
        /\ error = ""
        /\ fileno = 1
        /\ lines = <<>>
        /\ xx = <<>>
        /\ yy = <<>>
        /\ index = 0
        /\ total_y = 0
        /\ graphindex = 0
        /\ plots = <<>>
        /\ stdout = <<>>
        /\ outfile = <<>>
        /\ hyy = <<>>
        /\ hbinsize = 1
        /\ hout = <<>>

----------------------------------------------------------------------------
(* main(): one action per loop iteration.  An uncaught exception ends the *)
(* run where it is raised: error names it and no action is enabled after. *)

\* lines 116-126: open and read the next file, filter its lines, start its series
ReadFile ==
    /\ pc = "file"
    /\ error = ""
    /\ LET infile == options.FILES[fileno]
       IN  IF ~disk[infile].readable
           THEN /\ error' = "FileNotFoundError"
                /\ UNCHANGED <<pc, lines, xx, yy>>
           ELSE /\ lines' = IF options.filter # ""
                            THEN SelectSeq(disk[infile].lines,
                                           LAMBDA l : search(options.filter, l))
                            ELSE disk[infile].lines
                /\ xx' = <<>>
                /\ yy' = [i \in DOMAIN options.ycol |-> <<>>]
                /\ pc' = "line"
                /\ UNCHANGED error
    /\ UNCHANGED <<options, ycolnames, disk, fileno, index, total_y, graphindex,
                   plots, stdout, outfile>>
    /\ UNCHANGED histvars

\* line 131: the line is too short for the configured columns
IsShortLine(data) ==
    options.xcol >= Len(data) \/ Max(options.ycol) > Len(data)

\* data[i] of a Python list: TRUE when it raises IndexError
IndexError(data, i) == i >= Len(data) \/ i < -Len(data)

\* data[i] of a Python list, 0-based, negative i counted from the end
Item(data, i) == IF i >= 0 THEN data[i + 1] ELSE data[Len(data) + i + 1]

\* lines 143-144 with the value always appended to the first series
AppendYFirst(s, i, y) ==
    [s EXCEPT !.yy[1] = Append(@, y), !.total_y = @ + y]

\* lines 143-144: yy[i].append(y); total_y += y
AppendY(s, i, y) ==
    [s EXCEPT !.yy[i] = Append(@, y), !.total_y = @ + y]

\* lines 141-142: the raw line goes to stdout when y reaches --print-high
Echo(out, line, y) ==
    IF options.print_high # 0 /\ y >= options.print_high
    THEN Append(out, <<"line", line>>) ELSE out

\* lines 139-144: the loop over the Y columns from column i on; s is
\* [yy, total_y, out, error] so far, and the loop stops at the first exception
RECURSIVE YLoop(_, _, _, _)
YLoop(line, data, i, s) ==
    IF i > Len(s.yy) THEN s
    ELSE IF IndexError(data, options.ycol[i]) THEN [s EXCEPT !.error = "IndexError"]
    ELSE IF ~IsFloat(Item(data, options.ycol[i])) THEN [s EXCEPT !.error = "ValueError"]
    ELSE LET y == float(Item(data, options.ycol[i]))
         IN  YLoop(line, data, i + 1,
                   [AppendY(s, i, y) EXCEPT !.out = Echo(@, line, y)])

\* line 145 with the index advanced once per Y column
NextIndexPerColumn(idx) == idx + Len(options.ycol)

\* line 145: index += 1
NextIndex(idx) == idx + 1

\* lines 127-145: one iteration of "for line in lines"
ProcessLine ==
    /\ pc = "line"
    /\ error = ""
    /\ lines # <<>>
    /\ LET line == Head(lines)
           data == findall(line)
       IN  IF IsShortLine(data)
           THEN /\ stdout' = Append(stdout, <<"Ignoring short line", line>>)
                /\ lines' = Tail(lines)
                /\ UNCHANGED <<error, xx, yy, index, total_y>>
           ELSE IF options.xcol >= 0 /\ ~IsFloat(Item(data, options.xcol))
           THEN /\ error' = "ValueError"
                /\ UNCHANGED <<lines, xx, yy, index, total_y, stdout>>
           ELSE IF options.xdiv = 0
           THEN /\ error' = "ZeroDivisionError"
                /\ UNCHANGED <<lines, xx, yy, index, total_y, stdout>>
           ELSE LET x == IF options.xcol >= 0
                         THEN float(Item(data, options.xcol)) ELSE index
                    s == YLoop(line, data, 1,
                               [yy |-> yy, total_y |-> total_y, out |-> stdout,
                                error |-> ""])
                IN  /\ xx' = Append(xx, <<x, options.xdiv>>)
                    /\ yy' = s.yy
                    /\ total_y' = s.total_y
                    /\ stdout' = s.out
                    /\ error' = s.error
                    /\ IF s.error # ""
                       THEN UNCHANGED <<lines, index>>
                       ELSE /\ index' = NextIndex(index)
                            /\ lines' = Tail(lines)
    /\ UNCHANGED <<options, ycolnames, disk, pc, fileno, graphindex, plots, outfile>>
    /\ UNCHANGED histvars

\* line 152 with the histogram built for every non-zero bin width
UseHistogramNonZero == options.hist # 0

\* line 152: if options.hist > 0
UseHistogram == options.hist > 0

\* lines 157-159 with "and" for "or"
LabelBoth(i) ==
    IF Len(yy) > 1 /\ ycolnames[i] # format(options.ycol[i])
    THEN options.FILES[fileno] \o "/" \o ycolnames[i] ELSE options.FILES[fileno]

\* lines 157-159: the label of the series of Y column i
Label(i) ==
    IF Len(yy) > 1 \/ ycolnames[i] # format(options.ycol[i])
    THEN options.FILES[fileno] \o "/" \o ycolnames[i] ELSE options.FILES[fileno]

\* lines 148-163: the series of Y column i as handed to the renderer; every X
\* value is a quotient, a bin start b being b / 1
Series(i, gi) ==
    LET yyplot == IF options.sort THEN sorted(yy[i]) ELSE yy[i]
        binstart == calcHistogram(yyplot, options.hist)[1]
    IN  [x |-> IF UseHistogram THEN [k \in DOMAIN binstart |-> <<binstart[k], 1>>]
               ELSE xx,
         y |-> IF UseHistogram THEN calcHistogram(yyplot, options.hist)[2] ELSE yyplot,
         color |-> Colors[(gi % Len(Colors)) + 1],
         label |-> Label(i)]

\* lines 147-164: after the last line of a file, plot one series per Y column
PlotFile ==
    /\ pc = "line"
    /\ error = ""
    /\ lines = <<>>
    /\ plots' = plots \o [i \in DOMAIN yy |-> Series(i, graphindex + i - 1)]
    /\ graphindex' = graphindex + Len(yy)
    /\ fileno' = fileno + 1
    /\ pc' = IF fileno < Len(options.FILES) THEN "file" ELSE "finish"
    /\ UNCHANGED <<options, ycolnames, disk, error, lines, xx, yy, index, total_y,
                   stdout, outfile>>
    /\ UNCHANGED histvars

\* lines 178-181 moved before line 175: the image is saved before the statistics
FinishSaveFirst ==
    /\ pc = "finish"
    /\ error = ""
    /\ outfile' = <<plots>>
    /\ IF options.print_stats /\ index = 0
       THEN /\ error' = "ZeroDivisionError"
            /\ UNCHANGED <<pc, stdout>>
       ELSE /\ stdout' = IF options.print_stats
                         THEN Append(stdout, <<"Sum", Format1f(total_y, 1),
                                               "average", Format1f(total_y, index)>>)
                         ELSE stdout
            /\ pc' = "done"
            /\ UNCHANGED error
    /\ UNCHANGED <<options, ycolnames, disk, fileno, lines, xx, yy, index, total_y,
                   graphindex, plots>>
    /\ UNCHANGED histvars

\* lines 166-181: print the statistics, then save the image
Finish ==
    /\ pc = "finish"
    /\ error = ""
    /\ IF options.print_stats /\ index = 0
       THEN /\ error' = "ZeroDivisionError"
            /\ UNCHANGED <<pc, stdout, outfile>>
       ELSE /\ stdout' = IF options.print_stats
                         THEN Append(stdout, <<"Sum", Format1f(total_y, 1),
                                               "average", Format1f(total_y, index)>>)
                         ELSE stdout
            /\ outfile' = <<plots>>
            /\ pc' = "done"
            /\ UNCHANGED error
    /\ UNCHANGED <<options, ycolnames, disk, fileno, lines, xx, yy, index, total_y,
                   graphindex, plots>>
    /\ UNCHANGED histvars

Next == ReadFile \/ ProcessLine \/ PlotFile \/ Finish

Spec == Init /\ [][Next]_vars

----------------------------------------------------------------------------
(* calcHistogram on its own: every value sequence and bin width in bounds. *)

InitHist ==
    /\ hyy \in SeqsUpTo((-MaxHistVal)..MaxHistVal, MaxHistLen)
    /\ hbinsize \in 1..MaxBin
    /\ hout = <<>>
    /\ options = [Defaults EXCEPT !.ycol = <<0>>] @@ [FILES |-> <<>>]
    /\ ycolnames = <<"0">>
    /\ disk = << >>
    /\ pc = "hist"
    /\ error = ""
    /\ fileno = 1
    /\ lines = <<>>
    /\ xx = <<>>
    /\ yy = <<>>
    /\ index = 0
    /\ total_y = 0
    /\ graphindex = 0
    /\ plots = <<>>
    /\ stdout = <<>>
    /\ outfile = <<>>

\* lines 24-40: one call of calcHistogram
CallHistogram ==
    /\ pc = "hist"
    /\ hout = <<>>
    /\ hout' = <<calcHistogram(hyy, hbinsize)>>
    /\ UNCHANGED <<hyy, hbinsize>>
    /\ UNCHANGED pipevars

NextHist == CallHistogram

SpecHist == InitHist /\ [][NextHist]_vars

----------------------------------------------------------------------------
(* What the claims speak of, stated on the input: the filtered lines of a   *)
(* file, the lines whose token count is insufficient, the records.         *)

NumFiles == Len(options.FILES)
NumYcols == Len(options.ycol)

\* the lines of file f that match the filter, in order
FilteredLines(f) ==
    LET all == disk[options.FILES[f]].lines
    IN  IF options.filter = "" THEN all
        ELSE SelectSeq(all, LAMBDA l : search(options.filter, l))

\* the X index is >= 0 and >= the token count, or a Y index is >= the token count
ShortLine(line) ==
    LET n == Len(findall(line))
    IN  \/ options.xcol >= 0 /\ options.xcol >= n
        \/ \E i \in DOMAIN options.ycol : options.ycol[i] >= n

\* the lines of a sequence that are not short
Records(ls) == SelectSeq(ls, LAMBDA l : ~ShortLine(l))

\* the filtered lines of file f whose processing is complete
Processed(f) ==
    IF f < fileno THEN FilteredLines(f)
    ELSE IF f = fileno /\ pc = "line"
         THEN SubSeq(FilteredLines(f), 1, Len(FilteredLines(f)) - Len(lines))
         ELSE <<>>

\* number of records in the files before f
RecordsBefore(f) == SumSeq([g \in 1..(f - 1) |-> Len(Records(FilteredLines(g)))])

\* the Y value of column i in a record
RecordY(line, i) == float(Item(findall(line), options.ycol[i]))

\* the X value of a record that is the n-th record (0-based) of the run
RecordX(line, n) ==
    IF options.xcol >= 0
    THEN <<float(Item(findall(line), options.xcol)), options.xdiv>>
    ELSE <<n, options.xdiv>>

\* the file and the Y column of the j-th series handed to the renderer
FileOfPlot(j) == ((j - 1) \div NumYcols) + 1
YcolOfPlot(j) == ((j - 1) % NumYcols) + 1

Running == error = "" /\ pc \in {"file", "line", "finish", "done"}

----------------------------------------------------------------------------
(* Claims. *)

\* C1: a filtered line whose token count is insufficient (the X index is >= 0
\* and >= the token count, or some Y index is >= the token count, the boundary
\* Y index = token count included) is skipped without ending the run: no X and
\* no Y value is appended, index and total_y are unchanged, and processing
\* goes on with the next line.
C1_ShortLineSkipped ==
    [][(pc = "line" /\ error = "" /\ lines # <<>> /\ ShortLine(Head(lines)))
          => /\ xx' = xx
             /\ yy' = yy
             /\ index' = index
             /\ total_y' = total_y
             /\ error' = ""
             /\ lines' = Tail(lines)]_vars

\* C2: with --print-stats the reported sum is the sum of every Y value
\* appended to a series, and the reported average is that sum divided by the
\* number of those Y values.
AllYValues ==
    Concat([f \in 1..NumFiles |->
              Concat([k \in DOMAIN Records(FilteredLines(f)) |->
                        [i \in DOMAIN options.ycol |->
                           RecordY(Records(FilteredLines(f))[k], i)]])])

C2_AverageIsMeanOfYValues ==
    (pc = "done" /\ options.print_stats)
        => stdout[Len(stdout)] =
              <<"Sum", Format1f(SumSeq(AllYValues), 1),
                "average", Format1f(SumSeq(AllYValues), Len(AllYValues))>>

\* what the statistics line holds instead: the sum, and the sum per record
C2_AverageIsSumPerRecord ==
    (pc = "done" /\ options.print_stats)
        => /\ stdout[Len(stdout)][2] = Format1f(SumSeq(AllYValues), 1)
           /\ stdout[Len(stdout)][4] = Format1f(SumSeq(AllYValues), index)

\* C3: the image is written only on normal completion: when an input file
\* cannot be opened, a selected token fails numeric conversion, or statistics
\* are requested and no record was accepted (a division by zero), the run
\* aborts and savefig is never executed.
UnreadableFile == \E f \in 1..NumFiles : ~disk[options.FILES[f]].readable

SelectedTokens(line) ==
    LET data == findall(line)
    IN  (IF options.xcol >= 0 THEN {Item(data, options.xcol)} ELSE {})
            \cup {Item(data, options.ycol[i]) :
                     i \in {c \in DOMAIN options.ycol : ~IndexError(data, options.ycol[c])}}

ConversionFailure ==
    \E f \in 1..NumFiles :
        /\ \A g \in 1..f : disk[options.FILES[g]].readable
        /\ \E k \in DOMAIN Records(FilteredLines(f)) :
              \E t \in SelectedTokens(Records(FilteredLines(f))[k]) : ~IsFloat(t)

StatsOfNothing ==
    /\ options.print_stats
    /\ \A f \in 1..NumFiles : Records(FilteredLines(f)) = <<>>

C3_ImageOnlyOnNormalCompletion ==
    /\ error # "" => outfile = <<>>
    /\ outfile # <<>> => /\ pc = "done"
                         /\ ~UnreadableFile
                         /\ ~ConversionFailure
                         /\ ~StatsOfNothing

\* the statistics of a run that accepted no record end it before the image is saved
C3_Witness ==
    /\ pc = "finish"
    /\ error = "ZeroDivisionError"
    /\ StatsOfNothing
    /\ plots # <<>>
    /\ outfile = <<>>

C5_SeriesAligned ==
    (pc = "line" /\ error = "")
        => LET recs == Records(Processed(fileno))
               before == RecordsBefore(fileno)
           IN  /\ DOMAIN yy = DOMAIN options.ycol
               /\ Len(xx) = Len(recs)
               /\ \A i \in DOMAIN yy :
                     /\ Len(yy[i]) = Len(xx)
                     /\ \A k \in DOMAIN recs : yy[i][k] = RecordY(recs[k], i)
               /\ \A k \in DOMAIN recs :
                     xx[k] = RecordX(recs[k], before + k - 1)

\* two records in two series whose values differ
C5_Witness ==
    /\ pc = "line"
    /\ error = ""
    /\ Len(yy) = 2
    /\ Len(xx) = 2
    /\ yy[1] # yy[2]
    /\ Len(yy[1]) = 2

\* C6: for every Y sequence (negative values included) and every positive bin
\* width B, calcHistogram returns (bin_start, count) pairs in strictly
\* ascending bin order, each with bin_start = bin_index * B and count >= 1
\* equal to the number of values y with floor(y / B) = bin_index
\* (bin_start <= y < bin_start + B), and the counts sum to the number of values.
C6_Histogram ==
    hout # <<>>
        => LET xxout == hout[1][1]
               yyout == hout[1][2]
               B == hbinsize
           IN  /\ DOMAIN xxout = 1..Len(xxout)
               /\ DOMAIN yyout = DOMAIN xxout
               /\ \A k \in DOMAIN xxout :
                     /\ \E b \in (-MaxHistVal - 1)..MaxHistVal : xxout[k] = b * B
                     /\ yyout[k] >= 1
                     /\ yyout[k] = Cardinality({j \in DOMAIN hyy :
                                        xxout[k] <= hyy[j] /\ hyy[j] < xxout[k] + B})
                     /\ k > 1 => xxout[k - 1] < xxout[k]
               /\ SumSeq(yyout) = Len(hyy)

\* negative and positive values, a gap in the bins, two values in one bin
C6_Witness ==
    /\ hout # <<>>
    /\ hbinsize = 2
    /\ hyy = <<-1, 3, -2>>
    /\ hout[1] = << <<-2, 2>>, <<2, 1>> >>

\* the X and Y values of the records of file f in Y column i, in record order
RecordXs(f) ==
    LET recs == Records(FilteredLines(f))
        before == RecordsBefore(f)
    IN  [k \in DOMAIN recs |-> RecordX(recs[k], before + k - 1)]
RecordYs(f, i) ==
    LET recs == Records(FilteredLines(f))
    IN  [k \in DOMAIN recs |-> RecordY(recs[k], i)]

\* C7 as stated: a run configured with a bin width <= 0, a negative one in
\* particular, fails instead of completing normally.
C7_NegativeBinWidthAborts ==
    options.hist < 0 => pc # "done"

\* C7 as amended: the histogram transform is applied exactly when the bin
\* width is > 0.  With a bin width <= 0, negative included, it is skipped
\* without any failure and the renderer gets the un-binned series: the X
\* values and the Y values (sorted with --sort) of the file's records.
C7_HistogramOnlyWhenPositive ==
    \A j \in DOMAIN plots :
        LET f == FileOfPlot(j)
            ys == RecordYs(f, YcolOfPlot(j))
        IN  IF options.hist > 0
            THEN /\ SumSeq(plots[j].y) = Len(ys)
                 /\ \A k \in DOMAIN plots[j].x :
                       /\ plots[j].x[k][2] = 1
                       /\ plots[j].x[k][1] % options.hist = 0
                       /\ plots[j].y[k] =
                             Cardinality({r \in DOMAIN ys :
                                 /\ plots[j].x[k][1] <= ys[r]
                                 /\ ys[r] < plots[j].x[k][1] + options.hist})
            ELSE /\ plots[j].x = RecordXs(f)
                 /\ plots[j].y = IF options.sort THEN sorted(ys) ELSE ys

\* a run with a negative bin width completes and saves the raw, unsorted series
C7_Witness ==
    /\ options.hist < 0
    /\ pc = "done"
    /\ error = ""
    /\ outfile # <<>>
    /\ plots[1].y = <<3, 1>>
    /\ plots[1].x = << <<0, 1>>, <<1, 1>> >>

\* C8: a negative Y column index is invalid: in no run configured with one is
\* a record accepted with a Y value appended to a series.
C8_NegativeYIndexNeverAccepted ==
    (\E i \in DOMAIN options.ycol : options.ycol[i] < 0)
        => /\ index = 0
           /\ \A i \in DOMAIN yy : yy[i] = <<>>

HasDisplayName(i) == ycolnames[i] # format(options.ycol[i])

\* one series per (file, Y spec) pair in command-line and declaration order,
\* labelled file/name when there are several Y specs or the spec is named
SeriesInOrder ==
    /\ Len(plots) = (fileno - 1) * NumYcols
    /\ pc \in {"finish", "done"} => fileno = NumFiles + 1
    /\ \A j \in DOMAIN plots :
          (NumYcols > 1 \/ HasDisplayName(YcolOfPlot(j)))
              => plots[j].label =
                    options.FILES[FileOfPlot(j)] \o "/" \o ycolnames[YcolOfPlot(j)]

\* C9 as stated: files in command-line order and Y specs in declaration order
\* give exactly one series per (file, Y spec) pair, also for a file without
\* accepted records, labelled file/name when several Y specs are configured or
\* the spec has a display name, and each series holds exactly one point per
\* accepted record of the file.
C9_OnePointPerRecord ==
    /\ SeriesInOrder
    /\ \A j \in DOMAIN plots :
          /\ Len(plots[j].x) = Len(Records(FilteredLines(FileOfPlot(j))))
          /\ Len(plots[j].y) = Len(Records(FilteredLines(FileOfPlot(j))))

\* C9 as amended: the same, with one point per accepted record of the file
\* when no histogram is built (bin width <= 0); with a bin width > 0 a series
\* holds one point per non-empty bin, whose counts add up to the number of
\* accepted records of the file.
C9_SeriesPerFileAndYcol ==
    /\ SeriesInOrder
    /\ \A j \in DOMAIN plots :
          LET ys == RecordYs(FileOfPlot(j), YcolOfPlot(j))
              n == Len(ys)
          IN  /\ Len(plots[j].x) = Len(plots[j].y)
              /\ IF options.hist > 0
                 THEN /\ SumSeq(plots[j].y) = n
                      /\ \A k \in DOMAIN plots[j].y : plots[j].y[k] >= 1
                 ELSE /\ Len(plots[j].y) = n
                      /\ \A k \in DOMAIN plots[j].y :
                            \E r \in 1..n : plots[j].y[k] = ys[r]

\* two files, the first without records, and the specs a=0 and b=1
C9_Witness ==
    /\ pc = "done"
    /\ ycolnames = <<"a", "b">>
    /\ Len(plots) = 4
    /\ [j \in 1..4 |-> plots[j].label] = <<"a.log/a", "a.log/b", "b.log/a", "b.log/b">>
    /\ [j \in 1..4 |-> plots[j].y] = <<<<>>, <<>>, <<1>>, <<3>>>>
    /\ plots[3].x = plots[4].x

\* number of raw-line echoes in the output
Echoes(out) == Len(SelectSeq(out, LAMBDA e : e[1] = "line"))

\* C10: with --print-high configured, an accepted record's raw line is written
\* to stdout once for each Y column whose value is >= the threshold (not at
\* all when none is), and a rejected (short) line is never echoed.
C10_EchoPerTriggeringColumn ==
    [][(pc = "line" /\ error = "" /\ lines # <<>> /\ options.print_high # 0)
          => LET line == Head(lines)
                 echoed == Echoes(stdout') - Echoes(stdout)
             IN  IF ShortLine(line) THEN echoed = 0
                 ELSE error' = ""
                        => /\ echoed = Cardinality({i \in DOMAIN options.ycol :
                                          RecordY(line, i) >= options.print_high})
                           /\ \A e \in (Len(stdout) + 1)..Len(stdout') :
                                 stdout'[e] = <<"line", line>>]_vars

====
